---- MODULE Spec2Model ----
(***************************************************************************)
(* Synchronization engine of the notes application: the Google Drive sync  *)
(* manager (Sync Orchestrator and its seven Domain Sync Units), the        *)
(* SmartSyncProvider (Sync Coordinator) and the NotesProvider (Local       *)
(* Entity Store of the notes).                                             *)
(*                                                                         *)
(* Granularity.  JavaScript runs the code single-threaded; the points at   *)
(* which other callbacks can run are the awaits.  A unit is modelled with  *)
(* one step per remote request it awaits (credential probe, find, read,    *)
(* write) and one for the local save; what the continuation does between   *)
(* two of these is part of the step that resumes it.                       *)
(*                                                                         *)
(* Focus.  All seven domains exist in every behaviour.  One of them, the   *)
(* variable focus chosen by Init, is the domain whose data and whose units *)
(* are followed request by request; the six other units of a fan-out are   *)
(* followed only up to their boolean result.                               *)
(*                                                                         *)
(* Specifications.  Spec is the whole system: the window listeners, the    *)
(* Coordinator and every resumption.  SpecLock keeps the callers of        *)
(* syncAll and leaves out the domain-changed events.  SpecUnit runs one    *)
(* unit of focus at a time, called through instantSync, on every remote    *)
(* content including malformed ones.  SpecResolve applies resolveConflict  *)
(* to every pair of envelopes in both argument orders.  SpecCoord is the   *)
(* Coordinator alone on a restored session.  SpecRelease is the callers of *)
(* syncAll under the assumption that every awaited call returns.           *)
(* SpecNotes is the NotesProvider (its mutations, its reloads, its         *)
(* debounce timer) together with the notes unit; the store it reads and    *)
(* writes is the local store of the notes domain.  The timer is modelled   *)
(* without its length: it fires at some time after it was set.             *)
(* SpecDevice is getDeviceId called by the units of one fan-out on an      *)
(* installation with or without a stored device id.  SpecOffline is the    *)
(* Coordinator and the orchestrator on a device whose requests all fail;   *)
(* connectivity does not change during a behaviour.  SpecStale is SpecUnit *)
(* started on a device that never synced, against a blob of the other      *)
(* device.  SpecReload is the NotesProvider alone with the 'notesUpdated'   *)
(* signal.  SpecShared is the settings unit beside the keys the sections,  *)
(* activity and media units keep in the same settings store.  SpecTwo is   *)
(* two devices syncing one domain in turn, each sync run to completion.    *)
(* SpecRest is the Coordinator and the window listeners after              *)
(* domain-changed signals, every awaited call eventually returning.        *)
(***************************************************************************)
EXTENDS Integers, Sequences, FiniteSets, TLC

(* ------------------------------ bounds --------------------------------- *)
\* syncs of one domain each of two devices makes after the edits have stopped
MaxSyncs == 3

\* last value of the clock (the clock starts at StartTime)
MaxTime == 3
\* remote requests and local store calls that fail in one behaviour
MaxFaults == 1
\* trigger events (sign-in, connectivity, visibility, manual, domain-changed)
\* and mutations of the notes
MaxTriggers == 2

(* ------------------------------ domains -------------------------------- *)
types == <<"notes", "tasks", "folders", "sections", "settings", "activity", "media">>

Domains == {types[i] : i \in 1..Len(types)}

SYNC_FILES == [d \in Domains |->
    CASE d = "notes" -> "nota_notes.json"
      [] d = "tasks" -> "nota_tasks.json"
      [] d = "folders" -> "nota_folders.json"
      [] d = "sections" -> "nota_sections.json"
      [] d = "settings" -> "nota_settings.json"
      [] d = "activity" -> "nota_activity.json"
      [] d = "media" -> "nota_media_index.json"]

\* domains for which a domain-changed event has a listener
ListenedDomains == {"notes", "tasks", "folders", "sections", "settings", "media"}

(* ------------------------------ values --------------------------------- *)
\* JavaScript values as tagged records
Undefined == [kind |-> "undefined"]
Num == [kind |-> "number"]
Arr(s) == [kind |-> "array", items |-> s]
Obj(f) == [kind |-> "object", fields |-> f]
Str(x) == [kind |-> "string", json |-> x]

\* a Date and the ISO string JSON turns it into
DateVal(ms) == [rep |-> "date", ms |-> ms]
ISO(ms) == [rep |-> "string", ms |-> ms]
toISOString(d) == ISO(d.ms)
NewDate(s) == DateVal(s.ms)
getTime(d) == d.ms

Epoch == ISO(0)

ThisDevice == "device_A"
OtherDevice == "device_B"

(* ----------------------- JSON.stringify / parse ------------------------ *)
\* JSON.stringify of one list entry: a Date field becomes its ISO string
entryToJSON(e) ==
    IF "updatedAt" \in DOMAIN e
    THEN [e EXCEPT !.updatedAt = toISOString(e.updatedAt)]
    ELSE e

toJSON(p) ==
    IF p.kind = "array"
    THEN Arr([i \in 1..Len(p.items) |-> entryToJSON(p.items[i])])
    ELSE p

(* --------------------------- resolveConflict --------------------------- *)
resolveConflict_tieLocal(local, remote) ==
    LET localTime == getTime(NewDate(local.metadata.lastSyncTime))
        remoteTime == getTime(NewDate(remote.metadata.lastSyncTime))
    IN IF localTime >= remoteTime
       THEN [winner |-> "local", data |-> local.data]
       ELSE [winner |-> "remote", data |-> remote.data]

resolveConflict(local, remote) ==
    LET localTime == getTime(NewDate(local.metadata.lastSyncTime))
        remoteTime == getTime(NewDate(remote.metadata.lastSyncTime))
    IN IF localTime > remoteTime
       THEN [winner |-> "local", data |-> local.data]
       ELSE [winner |-> "remote", data |-> remote.data]

(* ------------------------- per-domain payloads ------------------------- *)
Null == [kind |-> "null"]
\* a remote body that is not JSON
Garbage == [kind |-> "garbage"]

ListDomains == {"notes", "tasks", "folders", "sections", "activity"}

\* one list entry; a note carries a Date
Entry(d, i, v) ==
    IF d = "notes"
    THEN [id |-> i, v |-> v, updatedAt |-> DateVal(0)]
    ELSE [id |-> i, v |-> v]

\* ids (for the settings: keys) of the payload this device starts with, of the
\* payload another device has put in the remote blob, and of a local change
IdsHere(d) == IF d = "settings" THEN <<"theme", "language">> ELSE <<1, 2>>
IdsThere(d) == IF d = "settings" THEN <<"language", "font">> ELSE <<2, 3>>
IdOfChange(d) == IF d = "settings" THEN "theme" ELSE 4

Payload(d, ids, v) ==
    CASE d \in ListDomains -> Arr([i \in 1..Len(ids) |-> Entry(d, ids[i], v)])
      [] d = "settings" -> Obj([k \in {ids[i] : i \in 1..Len(ids)} |-> v])
      [] d = "media" -> Obj([images |-> ids, audio |-> <<>>])

\* what the local store of d holds for a payload p: the media index is kept
\* as a JSON string under 'media_index', the settings store also holds keys
\* that are not synced
StoredForm(d, p) ==
    CASE d = "media" -> Str(p)
      [] d = "settings" ->
            Obj([k \in DOMAIN p.fields \cup {"google_user"} |->
                    IF k = "google_user" THEN "here" ELSE p.fields[k]])
      [] OTHER -> p

\* a change made on this device: one more entry (for the settings: a value)
changeLocal(d, stored) ==
    CASE d \in ListDomains ->
            IF stored.kind = "array"
            THEN Arr(<<Entry(d, IdOfChange(d), "edit")>> \o stored.items)
            ELSE stored
      [] d = "settings" ->
            IF stored.kind = "object"
            THEN Obj([k \in DOMAIN stored.fields \cup {IdOfChange(d)} |->
                        IF k = IdOfChange(d) THEN "edit" ELSE stored.fields[k]])
            ELSE stored
      [] d = "media" ->
            IF stored.kind = "string" /\ stored.json.kind = "object"
            THEN Str(Obj([stored.json.fields EXCEPT
                            !.images = <<IdOfChange(d)>> \o @]))
            ELSE stored

(* ----------------------- the units' local loaders ---------------------- *)
\* the keys syncSettings leaves out of the payload
isSyncableKey(k) == k \notin {"google_user", "device_id", "sync_time"}

getLocalMediaIndex(stored) ==
    IF stored.kind = "string"
    THEN stored.json
    ELSE Obj([images |-> <<>>, audio |-> <<>>])

loadLocal(d, stored) ==
    CASE d = "settings" ->
            IF stored.kind = "object"
            THEN Obj([k \in {x \in DOMAIN stored.fields : isSyncableKey(x)} |->
                        stored.fields[k]])
            ELSE stored
      [] d = "media" -> getLocalMediaIndex(stored)
      [] OTHER -> stored

getLocalDataWithMetadata(data, storedTime) ==
    [data |-> data,
     metadata |-> [lastSyncTime |-> IF storedTime = Undefined THEN Epoch ELSE storedTime,
                   deviceId |-> ThisDevice,
                   version |-> 1]]

\* the syncData object a unit builds before writeFile
makeSyncData_noStamp(data, t) ==
    [data |-> data,
     metadata |-> [lastSyncTime |-> Epoch, deviceId |-> ThisDevice, version |-> 1]]

makeSyncData(data, t) ==
    [data |-> data,
     metadata |-> [lastSyncTime |-> ISO(t), deviceId |-> ThisDevice, version |-> 1]]

\* the body writeFile sends: JSON.stringify(content)
stringify(env) == [env EXCEPT !.data = toJSON(env.data)]

(* ------------------------ remote-wins, per domain ---------------------- *)
restoreNote(note) ==
    IF "updatedAt" \in DOMAIN note
    THEN [note EXCEPT !.updatedAt = NewDate(note.updatedAt)]
    ELSE note

restoredNotes(data) == Arr([i \in 1..Len(data.items) |-> restoreNote(data.items[i])])

\* [...data, ...activityLog].reduce(keep the first entry of every id)
mergeActivity_overwrite(data, activityLog) == data

mergeActivity(data, activityLog) ==
    LET all == data.items \o activityLog.items
        acc[i \in 0..Len(all)] ==
            IF i = 0 THEN <<>>
            ELSE IF \E j \in 1..Len(acc[i - 1]) : acc[i - 1][j].id = all[i].id
                 THEN acc[i - 1]
                 ELSE Append(acc[i - 1], all[i])
    IN Arr(acc[Len(all)])

\* does the remote-wins branch of d throw on this data before it saves?
remoteWinsThrows(d, data) ==
    CASE d = "notes" -> data.kind # "array"
      [] d = "activity" -> data.kind # "array"
      [] d = "settings" -> data.kind \in {"undefined", "null"}
      [] OTHER -> FALSE

\* the value the remote-wins branch of d hands to the local store
remoteWinsValue(d, data, localData) ==
    CASE d = "notes" -> restoredNotes(data)
      [] d = "activity" -> mergeActivity(data, localData)
      [] d = "media" -> IF data.kind = "undefined" THEN Undefined ELSE Str(data)
      [] OTHER -> data

\* what a local collaborator (saveNotesToDB, saveTasksToDB, saveFolders,
\* setSetting) holds under a key after it was given value for that key
persisted(value) == value

\* the local store after the remote-wins branch has saved value: syncSettings
\* calls setSetting for each key of the remote data, the others save the
\* value under their one key
saveLocal(d, stored, value) ==
    IF d = "settings"
    THEN IF value.kind = "object" /\ stored.kind = "object"
         THEN Obj([k \in DOMAIN stored.fields \cup DOMAIN value.fields |->
                    IF k \in DOMAIN value.fields THEN persisted(value.fields[k])
                    ELSE stored.fields[k]])
         ELSE stored
    ELSE persisted(value)

(* ---------------------- NotesProvider: pure parts ---------------------- *)
\* Array.prototype.join
RECURSIVE join(_, _)
join(strs, sep) ==
    IF strs = <<>> THEN ""
    ELSE IF Len(strs) = 1 THEN strs[1]
    ELSE strs[1] \o sep \o join(Tail(strs), sep)

\* `${note.isPinned}` and the like: an absent field prints as undefined
flagText(note, f) ==
    IF f \in DOMAIN note THEN (IF note[f] THEN "true" ELSE "false") ELSE "undefined"

\* the dependency of the useMemo of notesMeta (v is the note's title)
fingerprint(items) ==
    join([i \in 1..Len(items) |->
            ToString(items[i].id) \o "-" \o ToString(getTime(items[i].updatedAt))
            \o "-" \o items[i].v
            \o "-" \o flagText(items[i], "isPinned")
            \o "-" \o flagText(items[i], "isArchived")
            \o "-" \o flagText(items[i], "isDeleted")], ",")

\* currentHash of the debounced save effect
currentHash(items) ==
    join([i \in 1..Len(items) |->
            ToString(items[i].id) \o ":" \o ToString(getTime(items[i].updatedAt))], "|")

\* extractNoteMeta: the fields of the note (its content left out), and
\* hasFullContent
extractNoteMeta(note) ==
    [k \in DOMAIN note \cup {"hasFullContent"} |->
        IF k = "hasFullContent" THEN TRUE ELSE note[k]]

\* useMemo: the stored value is kept when the dependency string is the same
useMemo(memo, items) ==
    IF memo.key = fingerprint(items)
    THEN memo
    ELSE [key |-> fingerprint(items),
          items |-> [i \in 1..Len(items) |-> extractNoteMeta(items[i])]]

\* the debounced save effect, run after notes changed: nothing for an empty
\* collection or an unchanged hash (a pending timer is left as it is), else
\* the pending timer is cleared and a new one set that captures the notes
saveEffect(timer, saved, items) ==
    IF Len(items) = 0 THEN timer
    ELSE IF currentHash(items) = saved THEN timer
    ELSE [notes |-> Arr(items), hash |-> currentHash(items)]

\* { ...n, ...updates, updatedAt: new Date() }
updated(note, updates, t) ==
    [k \in DOMAIN note \cup DOMAIN updates |->
        IF k = "updatedAt" THEN DateVal(t)
        ELSE IF k \in DOMAIN updates THEN updates[k] ELSE note[k]]

\* the setNotes argument of saveNote: replace the note of that id or prepend
withNote(items, note) ==
    IF \E i \in 1..Len(items) : items[i].id = note.id
    THEN [i \in 1..Len(items) |-> IF items[i].id = note.id THEN note ELSE items[i]]
    ELSE <<note>> \o items

\* prev.filter(n => n.id !== noteId)
withoutNote(items, noteId) == SelectSeq(items, LAMBDA n : n.id # noteId)

\* the notes store after saveNoteToDBSingle(note) and deleteNoteFromDB(noteId)
saveNoteToDBSingle(stored, note) == Arr(withNote(stored.items, persisted(note)))

deleteNoteFromDB(stored, noteId) == Arr(withoutNote(stored.items, noteId))

\* what the provider holds once it has mounted and loaded the notes
LoadedNotes == Payload("notes", IdsHere("notes"), "here")

NoMutation == [op |-> "none", ids |-> {}, wrote |-> {}, made |-> {}]

(* ------------------------------- state --------------------------------- *)
VARIABLES
    focus,            \* the domain followed request by request
    now,              \* Date.now()
    remote,           \* the files named SYNC_FILES[focus] in appDataFolder
    local,            \* what the local store of focus holds
    syncTime,         \* the setting sync_<focus>_time
    lastFullSync,     \* the setting last_full_sync
    accessToken,      \* GoogleDriveSyncManager.accessToken
    refreshTokenFn,   \* GoogleDriveSyncManager.refreshTokenFn is set
    syncInProgress,   \* GoogleDriveSyncManager.syncInProgress
    unit,             \* the running units of focus, one per way of starting one
    others,           \* the six other units of each syncAll call
    call,             \* the syncAll calls, one per caller
    userToken,        \* user.authentication.accessToken of the signed-in user
    syncLock,         \* SmartSyncProvider.syncLock
    isSyncing,        \* SmartSyncProvider.isSyncing
    hasError,         \* SmartSyncProvider.hasError
    lastSync,         \* SmartSyncProvider.lastSync
    awaiting,         \* what the Coordinator is awaiting: none, syncAll, syncNow
    lastOutcome,      \* how the Coordinator's last sync ended
    faults,           \* remote requests that have failed so far
    triggers,         \* trigger events so far
    envA, envB,       \* two envelopes of one domain handed to resolveConflict
    picked,           \* what resolveConflict returned for them, per argument order
    notes,            \* NotesProvider.notes
    notesMeta,        \* NotesProvider.notesMeta: the memoized value and its key
    saveTimeout,      \* the pending timer of saveTimeoutRef and what it captured
    lastSaved,        \* NotesProvider.lastSavedRef
    reloading,        \* a loadNotesFromDB().then(setNotes) is pending
    mutation,         \* the last mutation of the notes, its single writes, the notes it made
    device_id,        \* the setting device_id
    getting,          \* the getDeviceId() calls in progress, one per calling unit
    online,           \* the device reaches the network (a request can be answered)
    peer,             \* the local store and sync_<focus>_time of the other device
    rounds            \* the syncs of focus each device has completed

vars == <<focus, now, remote, local, syncTime, lastFullSync, accessToken, refreshTokenFn,
          syncInProgress, unit, others, call, userToken, syncLock, isSyncing, hasError,
          lastSync, awaiting, lastOutcome, faults, triggers, envA, envB, picked,
          notes, notesMeta, saveTimeout, lastSaved, reloading, mutation,
          device_id, getting, online, peer, rounds>>

orchVars == <<accessToken, refreshTokenFn, syncInProgress, others, call>>
coordVars == <<userToken, syncLock, isSyncing, hasError, lastSync, awaiting, lastOutcome>>
dataVars == <<remote, local, syncTime, lastFullSync>>
pairVars == <<envA, envB, picked>>
noteVars == <<notes, notesMeta, saveTimeout, lastSaved, reloading, mutation>>
moreVars == <<device_id, getting, online, peer, rounds>>

NoToken == "none"

\* the callers of syncAll: the googleAuthChanged listener and the Coordinator
Callers == {"auth", "coord"}

\* the ways a unit of focus is started: by the fan-out of a syncAll call, by
\* instantSync (window listener), by the Coordinator's syncNow(domain)
UnitIds == {"all_auth", "all_coord", "instantSync", "syncNow"}

FanoutUnit(c) == IF c = "auth" THEN "all_auth" ELSE "all_coord"

OtherDomains == Domains \ {focus}

IdleUnit ==
    [pc |-> "idle",          \* idle, probe, find, read, save, write, done
     localData |-> Null,      \* the local payload and metadata loaded at the start
     file |-> 0,              \* remoteFile: 0 for null, else the file's id
     remoteData |-> Null,     \* what readFile returned
     pending |-> Null,        \* syncData to write, or the value to save
     result |-> "none",       \* "true" / "false" once the unit has returned
     fault |-> "none",        \* the request of this run that failed, if any
     began |-> "other"]       \* the remote files when this run started

IdleCall == [pc |-> "idle", result |-> Null, failedUnits |-> {}]

ErrFailed(d) == [msg |-> "Failed to sync", type |-> d]
ErrBusy == [msg |-> "Sync already in progress", type |-> "none"]

BusyResult == [success |-> FALSE, errors |-> <<ErrBusy>>]

\* what the caller of a syncAll that threw gets: a rejected promise
Rejected == [kind |-> "rejected"]

Active(u) == unit[u].pc \in {"probe", "find", "read", "save", "write"}

\* --- the remote contents Init chooses from: another device wrote the blob
\* at time 1, and the clock starts after that
MetaThere == [lastSyncTime |-> ISO(1), deviceId |-> OtherDevice, version |-> 1]

StartTime == getTime(NewDate(MetaThere.lastSyncTime)) + 1

GoodContent(d) == [data |-> toJSON(Payload(d, IdsThere(d), "there")), metadata |-> MetaThere]

MalformedContents(d) ==
    { Garbage,
      [data |-> toJSON(Payload(d, IdsThere(d), "there")), metadata |-> Undefined],
      [data |-> Undefined, metadata |-> MetaThere],
      [data |-> Num, metadata |-> MetaThere] }

File(d, content) == [name |-> SYNC_FILES[d], content |-> content]

hasMetadata(content) ==
    /\ "metadata" \in DOMAIN content
    /\ "lastSyncTime" \in DOMAIN content.metadata

\* what a readFile result is
shapeOf(data) ==
    CASE data = Null -> "null"
      [] ~hasMetadata(data) -> "nometa"
      [] data.data.kind = "undefined" -> "nodata"
      [] data.data.kind = "number" -> "junk"
      [] OTHER -> "good"

\* the envelopes resolveConflict is tried on
Envelopes ==
    [data : {Arr(<<[id |-> 1, v |-> "here"]>>), Arr(<<[id |-> 1, v |-> "there"]>>)},
     metadata : [lastSyncTime : {ISO(t) : t \in 0..MaxTime},
                 deviceId : {ThisDevice, OtherDevice},
                 version : {1}]]

NotPicked == [winner |-> "none", data |-> Null]

(* ------------------------------ initial states ------------------------- *)
\* nothing is running: no unit, no syncAll call, the Coordinator idle, the
\* NotesProvider mounted (it has loaded its notes, and its save effect has
\* set the first timer)
Idle ==
    /\ focus \in Domains
    /\ now = StartTime
    /\ local = StoredForm(focus, Payload(focus, IdsHere(focus), "here"))
    /\ lastFullSync = Undefined
    /\ syncInProgress = FALSE
    /\ unit = [u \in UnitIds |-> IdleUnit]
    /\ others = [c \in Callers |-> [pc |-> "idle", failed |-> {}]]
    /\ call = [c \in Callers |-> IdleCall]
    /\ syncLock = FALSE
    /\ isSyncing = FALSE
    /\ hasError = FALSE
    /\ lastSync = Null
    /\ awaiting = "none"
    /\ lastOutcome = "none"
    /\ faults = 0
    /\ triggers = 0
    /\ notes = LoadedNotes
    /\ notesMeta = useMemo([key |-> "", items |-> <<>>], LoadedNotes.items)
    /\ saveTimeout = saveEffect(Null, "", LoadedNotes.items)
    /\ lastSaved = ""
    /\ reloading = FALSE
    /\ mutation = NoMutation

\* the units of a fan-out whose getDeviceId() calls are followed
Getters == {"syncNotes", "syncTasks", "syncSettings"}

IdleGetter == [pc |-> "idle", deviceId |-> ""]

Devices == {ThisDevice, OtherDevice}

\* the other device is not followed
NoPeer ==
    /\ peer = [local |-> Null, syncTime |-> Undefined]
    /\ rounds = [dev \in Devices |-> 0]

\* the device id was generated and stored by an earlier run, and the device
\* is online
Installed ==
    /\ device_id = ThisDevice
    /\ getting = [g \in Getters |-> IdleGetter]
    /\ online = TRUE
    /\ NoPeer

NoPair ==
    /\ envA = Null
    /\ envB = Null
    /\ picked = [o \in {"AB", "BA"} |-> NotPicked]

\* the application has been mounted: nobody is signed in, or a stored session
\* has been restored (the manager has no credential until one is handed over)
Mounted ==
    /\ accessToken = NoToken
    /\ refreshTokenFn = FALSE
    /\ userToken \in {NoToken, "token1"}

\* the system: no remote blob yet, or one another device has written
Init ==
    /\ Idle
    /\ Installed
    /\ NoPair
    /\ Mounted
    /\ \/ /\ remote = <<>>
          /\ syncTime = Undefined
       \/ /\ remote = <<File(focus, GoodContent(focus))>>
          /\ syncTime \in {Undefined, ISO(StartTime)}

\* the syncAll callers alone, on a fresh account
InitLock ==
    /\ Idle
    /\ Installed
    /\ NoPair
    /\ Mounted
    /\ remote = <<>>
    /\ syncTime = Undefined

\* one unit at a time, on every remote content, the Coordinator having handed
\* the credential and the refresh callback to the manager
InitUnit ==
    /\ Idle
    /\ Installed
    /\ NoPair
    /\ userToken = "token1"
    /\ accessToken = "token1"
    /\ refreshTokenFn = TRUE
    /\ \/ /\ remote = <<>>
          /\ syncTime = Undefined
       \/ /\ remote = <<File(focus, GoodContent(focus))>>
          /\ syncTime \in {Undefined, MetaThere.lastSyncTime, ISO(StartTime)}
       \/ /\ remote \in {<<File(focus, c)>> : c \in MalformedContents(focus)}
          /\ syncTime = Undefined

\* a blob of another device whose one note has the id and the time of the
\* first note loaded here and a title that spells the rest of the loaded
\* notes' fingerprint
CraftedTitle == "here-undefined-undefined-undefined,2-0-here"

CraftedContent ==
    [data |-> toJSON(Arr(<<[Entry("notes", 1, "here") EXCEPT !.v = CraftedTitle]>>)),
     metadata |-> MetaThere]

\* the NotesProvider and the notes unit, the credential handed over
InitNotes ==
    /\ Idle
    /\ Installed
    /\ NoPair
    /\ focus = "notes"
    /\ userToken = "token1"
    /\ accessToken = "token1"
    /\ refreshTokenFn = TRUE
    /\ remote \in {<<>>, <<File(focus, GoodContent(focus))>>, <<File(focus, CraftedContent)>>}
    /\ syncTime = Undefined

\* resolveConflict alone, on every pair of envelopes
InitResolve ==
    /\ Idle
    /\ Installed
    /\ Mounted
    /\ remote = <<>>
    /\ syncTime = Undefined
    /\ envA \in Envelopes
    /\ envB \in Envelopes
    /\ picked = [o \in {"AB", "BA"} |-> NotPicked]

(* ------------------------- starting units ------------------------------ *)
\* the remote files as a run finds them when it starts: none, or the one blob
\* this device wrote from the payload it still holds, or anything else
beginning ==
    CASE remote = <<>> -> "first"
      [] /\ Len(remote) = 1
         /\ hasMetadata(remote[1].content)
         /\ remote[1].content.metadata.deviceId = ThisDevice
         /\ remote[1].content.data = toJSON(loadLocal(focus, local)) -> "again"
      [] OTHER -> "other"

\* the record of a unit of focus that has just been called: without a
\* credential ensureValidToken yields null at once and the unit returns false
startedUnit(token) ==
    IF token = NoToken
    THEN [IdleUnit EXCEPT !.pc = "done", !.result = "false"]
    ELSE [IdleUnit EXCEPT !.pc = "probe", !.began = beginning]

\* unit after the units in S have been called with the credential token
launch(S, token) ==
    [u \in UnitIds |-> IF u \in S THEN startedUnit(token) ELSE unit[u]]

\* a unit that returns res
returned_restart(rec, res) == [rec EXCEPT !.pc = "probe"]

returned(rec, res) ==
    [rec EXCEPT !.pc = "done", !.result = res,
                !.localData = Null, !.file = 0, !.remoteData = Null, !.pending = Null]

faulted(rec, request) == [rec EXCEPT !.fault = request]

\* the catch block that ends every unit: the error is logged and the unit
\* returns false
caught_rethrow(rec) == returned(rec, "threw")

caught(rec) == returned(rec, "false")

(* ----------------------------- unit steps ------------------------------ *)
\* the unit loads the local payload and its last-sync time and calls findFile
loaded(rec) ==
    [rec EXCEPT !.pc = "find",
                !.localData = getLocalDataWithMetadata(loadLocal(focus, local), syncTime)]

\* ensureValidToken yields null (no credential, a probe that failed, a 401
\* that could not be refreshed): the unit returns false before any request
failClosed_open(rec) == loaded(rec)

failClosed(rec) == returned(rec, "false")

\* ensureValidToken resumes: the probe answered ok (the token is the current
\* one), or 401 and the refresh callback gave a new token, or it failed (as it
\* always does offline); or it gave the token and the local load that follows
\* threw
ensureValidToken(u) ==
    /\ unit[u].pc = "probe"
    /\ \/ /\ accessToken # NoToken
          /\ online
          /\ unit' = [unit EXCEPT ![u] = loaded(@)]
          /\ UNCHANGED <<accessToken, userToken, faults>>
       \/ /\ accessToken = NoToken
          /\ unit' = [unit EXCEPT ![u] = failClosed(@)]
          /\ UNCHANGED <<accessToken, userToken, faults>>
       \/ /\ accessToken # NoToken
          /\ ~online
          /\ unit' = [unit EXCEPT ![u] = failClosed(faulted(@, "probe"))]
          /\ UNCHANGED <<accessToken, userToken, faults>>
       \/ /\ accessToken # NoToken
          /\ online
          /\ refreshTokenFn
          /\ accessToken' = "token2"
          /\ userToken' = "token2"
          /\ unit' = [unit EXCEPT ![u] = loaded(@)]
          /\ UNCHANGED faults
       \/ /\ accessToken # NoToken
          /\ faults < MaxFaults
          /\ faults' = faults + 1
          /\ unit' = [unit EXCEPT ![u] = failClosed(faulted(@, "probe"))]
          /\ UNCHANGED <<accessToken, userToken>>
       \/ /\ accessToken # NoToken
          /\ online
          /\ faults < MaxFaults
          /\ faults' = faults + 1
          /\ unit' = [unit EXCEPT ![u] = caught(faulted(@, "load"))]
          /\ UNCHANGED <<accessToken, userToken>>
    /\ UNCHANGED <<focus, now, dataVars, refreshTokenFn, syncInProgress, others, call,
                   syncLock, isSyncing, hasError, lastSync, awaiting, lastOutcome, triggers,
                   pairVars, moreVars, noteVars>>

\* the continuation after findFile: with a file, readFile is called; without
\* one (none exists, or the request failed: findFile returns null for both)
\* the unit builds syncData and calls writeFile to create the file
afterFind(rec, f) ==
    IF f # 0
    THEN [rec EXCEPT !.pc = "read", !.file = f]
    ELSE [rec EXCEPT !.pc = "write", !.file = 0,
                     !.pending = makeSyncData(rec.localData.data, now)]

\* files?.[0] of the listing, whose order the request does not fix
findFile(u) ==
    /\ unit[u].pc = "find"
    /\ \/ /\ remote = <<>>
          /\ unit' = [unit EXCEPT ![u] = afterFind(@, 0)]
          /\ UNCHANGED faults
       \/ /\ \E f \in 1..Len(remote) : unit' = [unit EXCEPT ![u] = afterFind(@, f)]
          /\ UNCHANGED faults
       \/ /\ faults < MaxFaults
          /\ faults' = faults + 1
          /\ unit' = [unit EXCEPT ![u] = afterFind(faulted(@, "find"), 0)]
    /\ UNCHANGED <<focus, now, dataVars, orchVars, coordVars, triggers, pairVars, moreVars,
                   noteVars>>

\* the continuation after readFile returned data (null when the request
\* failed or the body is not JSON): nothing to do, or resolveConflict throws
\* on the missing metadata, or the remote-wins branch throws on the data, or
\* it saves locally, or the local-wins branch writes
afterRead(rec, data) ==
    IF data = Null
    THEN returned(rec, "true")
    ELSE IF ~hasMetadata(data)
    THEN caught(rec)
    ELSE LET r == resolveConflict(rec.localData, data)
         IN IF r.winner = "remote"
            THEN IF remoteWinsThrows(focus, r.data)
                 THEN caught(rec)
                 ELSE [rec EXCEPT !.pc = "save", !.remoteData = data,
                                  !.pending = remoteWinsValue(focus, r.data,
                                                              rec.localData.data)]
            ELSE [rec EXCEPT !.pc = "write", !.remoteData = data,
                             !.pending = makeSyncData(rec.localData.data, now)]

\* response.json() of a body
parseBody(content) == IF content = Garbage THEN Null ELSE content

\* readFile resumes; a unit that got null stamps sync_<focus>_time and returns
\* true, one whose continuation threw returns false
readFile(u) ==
    /\ unit[u].pc = "read"
    /\ \/ /\ unit' = [unit EXCEPT ![u] = afterRead(@, parseBody(remote[unit[u].file].content))]
          /\ UNCHANGED faults
       \/ /\ faults < MaxFaults
          /\ faults' = faults + 1
          /\ unit' = [unit EXCEPT ![u] = afterRead(faulted(@, "read"), Null)]
    /\ syncTime' = IF unit'[u].pc = "done" /\ unit'[u].result = "true"
                   THEN ISO(now) ELSE syncTime
    /\ UNCHANGED <<focus, now, remote, local, lastFullSync, orchVars, coordVars, triggers,
                   pairVars, moreVars, noteVars>>

\* the local save of the remote-wins branch completes and the unit stamps
\* sync_<focus>_time and returns true; or the save throws
saveRemoteWins(u) ==
    /\ unit[u].pc = "save"
    /\ \/ /\ local' = saveLocal(focus, local, unit[u].pending)
          /\ syncTime' = ISO(now)
          /\ unit' = [unit EXCEPT ![u] = returned(@, "true")]
          /\ UNCHANGED faults
       \/ /\ faults < MaxFaults
          /\ faults' = faults + 1
          /\ unit' = [unit EXCEPT ![u] = caught(faulted(@, "save"))]
          /\ UNCHANGED <<local, syncTime>>
    /\ UNCHANGED <<focus, now, remote, lastFullSync, orchVars, coordVars, triggers,
                   pairVars, moreVars, noteVars>>

\* writeFile: POST a new file, or PATCH the file found; it returns null when
\* the request fails, which the unit does not look at
written_alwaysCreate(files, f, body) == Append(files, File(focus, body))

written(files, f, body) ==
    IF f = 0
    THEN Append(files, File(focus, body))
    ELSE [files EXCEPT ![f].content = body]

writeFile(u) ==
    /\ unit[u].pc = "write"
    /\ \/ /\ remote' = written(remote, unit[u].file, stringify(unit[u].pending))
          /\ unit' = [unit EXCEPT ![u] = returned(@, "true")]
          /\ UNCHANGED faults
       \/ /\ faults < MaxFaults
          /\ faults' = faults + 1
          /\ remote' = remote
          /\ unit' = [unit EXCEPT ![u] = returned(faulted(@, "write"), "true")]
    /\ syncTime' = ISO(now)
    /\ UNCHANGED <<focus, now, local, lastFullSync, orchVars, coordVars, triggers, pairVars, moreVars,
                   noteVars>>

(* ----------------------------- syncAll --------------------------------- *)
\* line 687: the guard of syncAll
syncAllGuard_none == FALSE

syncAllGuard == syncInProgress

\* syncAll called by c with the credential token: busy, or the fan-out starts
syncAll(c, token) ==
    IF syncAllGuard
    THEN /\ call' = [call EXCEPT ![c] =
                [pc |-> "returned", result |-> BusyResult, failedUnits |-> {}]]
         /\ UNCHANGED <<syncInProgress, unit, others>>
    ELSE /\ syncInProgress' = TRUE
         /\ unit' = launch({FanoutUnit(c)}, token)
         /\ others' = [others EXCEPT ![c] = [pc |-> "run", failed |-> {}]]
         /\ call' = [call EXCEPT ![c] = [IdleCall EXCEPT !.pc = "fanout"]]

\* the six other units of c's fan-out settle: without a credential, or
\* offline, all of them return false; else each returns true unless its
\* requests fail
othersSettle(c) ==
    /\ others[c].pc = "run"
    /\ \/ /\ accessToken = NoToken
          /\ others' = [others EXCEPT ![c] = [pc |-> "done", failed |-> OtherDomains]]
          /\ UNCHANGED faults
       \/ /\ accessToken # NoToken
          /\ online
          /\ others' = [others EXCEPT ![c] = [pc |-> "done", failed |-> {}]]
          /\ UNCHANGED faults
       \/ /\ accessToken # NoToken
          /\ ~online
          /\ others' = [others EXCEPT ![c] = [pc |-> "done", failed |-> OtherDomains]]
          /\ UNCHANGED faults
       \/ /\ accessToken # NoToken
          /\ faults < MaxFaults
          /\ faults' = faults + 1
          /\ \E d \in OtherDomains :
                others' = [others EXCEPT ![c] = [pc |-> "done", failed |-> {d}]]
    /\ UNCHANGED <<focus, now, dataVars, accessToken, refreshTokenFn, syncInProgress,
                   unit, call, coordVars, triggers, pairVars, moreVars, noteVars>>

\* results.forEach: the errors of the units that were rejected or returned false
unitFailed(c, d) ==
    IF d = focus THEN unit[FanoutUnit(c)].result # "true" ELSE d \in others[c].failed

collectErrors(c) ==
    LET failing == SelectSeq(types, LAMBDA d : unitFailed(c, d))
    IN [i \in 1..Len(failing) |-> ErrFailed(failing[i])]

\* the finally block of syncAll: the lock is released whether or not the try
\* block threw
released_unlessThrown(threw) == threw

released(threw) == FALSE

\* Promise.allSettled has settled: the errors are collected, last_full_sync is
\* stored, the result is returned and the lock released; or storing
\* last_full_sync throws and the call is rejected, the lock released by the
\* finally block.  failedUnits records the domains of which a unit returned
\* false or had a request fail.
syncAllFinish(c) ==
    /\ call[c].pc = "fanout"
    /\ unit[FanoutUnit(c)].pc = "done"
    /\ others[c].pc = "done"
    /\ LET failedUnits == {d \in OtherDomains : d \in others[c].failed}
                           \cup {d \in {focus} :
                                    \/ unit[FanoutUnit(c)].result = "false"
                                    \/ unit[FanoutUnit(c)].fault # "none"}
       IN \/ /\ lastFullSync' = ISO(now)
             /\ call' = [call EXCEPT ![c] =
                     [pc |-> "returned",
                      result |-> [success |-> collectErrors(c) = <<>>,
                                  errors |-> collectErrors(c)],
                      failedUnits |-> failedUnits]]
             /\ syncInProgress' = released(FALSE)
             /\ UNCHANGED faults
          \/ /\ faults < MaxFaults
             /\ faults' = faults + 1
             /\ call' = [call EXCEPT ![c] =
                     [pc |-> "returned", result |-> Rejected, failedUnits |-> failedUnits]]
             /\ syncInProgress' = released(TRUE)
             /\ UNCHANGED lastFullSync
    /\ others' = [others EXCEPT ![c] = [pc |-> "idle", failed |-> {}]]
    /\ UNCHANGED <<focus, now, remote, local, syncTime, accessToken, refreshTokenFn,
                   unit, coordVars, triggers, pairVars, moreVars, noteVars>>

(* --------------------------- window listeners -------------------------- *)
\* 'googleAuthChanged' with signedIn: the credential is set and syncAll called
signIn ==
    /\ triggers < MaxTriggers
    /\ userToken = NoToken
    /\ call["auth"].pc # "fanout"
    /\ triggers' = triggers + 1
    /\ userToken' = "token1"
    /\ accessToken' = "token1"
    /\ syncAll("auth", "token1")
    /\ UNCHANGED <<focus, now, dataVars, refreshTokenFn, syncLock, isSyncing, hasError,
                   lastSync, awaiting, lastOutcome, faults, pairVars, moreVars, noteVars>>

\* 'googleAuthChanged' without signedIn: the credential is cleared
signOut ==
    /\ triggers < MaxTriggers
    /\ userToken # NoToken
    /\ triggers' = triggers + 1
    /\ userToken' = NoToken
    /\ accessToken' = NoToken
    /\ UNCHANGED <<focus, now, dataVars, refreshTokenFn, syncInProgress, unit, others, call,
                   syncLock, isSyncing, hasError, lastSync, awaiting, lastOutcome, faults,
                   pairVars, moreVars, noteVars>>

\* instantSync(focus) called on its own: false without a credential, else the
\* unit of focus is called
instantSync ==
    /\ triggers < MaxTriggers
    /\ \A u \in UnitIds : ~Active(u)
    /\ triggers' = triggers + 1
    /\ unit' = launch({"instantSync"}, accessToken)
    /\ UNCHANGED <<focus, now, dataVars, orchVars, coordVars, faults, pairVars, moreVars, noteVars>>

(* ------------------------------ Coordinator ---------------------------- *)
signedIn == userToken # NoToken

\* if (syncLock.current) return false, of performSync and of syncNow
coordGuard_none == FALSE

coordGuard == syncLock

\* performSync(reason): dropped under the lock; else it takes the lock, clears
\* hasError, hands the credential over and calls syncAll, whose 'busy' result
\* comes back at once
performSync ==
    /\ triggers < MaxTriggers
    /\ signedIn
    /\ triggers' = triggers + 1
    /\ \/ /\ coordGuard
          /\ lastOutcome' = "dropped"
          /\ UNCHANGED <<accessToken, refreshTokenFn, syncInProgress, unit, others, call,
                         syncLock, isSyncing, hasError, awaiting>>
       \/ /\ ~coordGuard
          /\ accessToken' = userToken
          /\ refreshTokenFn' = TRUE
          /\ syncAll("coord", userToken)
          /\ IF syncAllGuard
             THEN /\ hasError' = TRUE
                  /\ lastOutcome' = "busy"
                  /\ UNCHANGED <<syncLock, isSyncing, awaiting>>
             ELSE /\ hasError' = FALSE
                  /\ syncLock' = TRUE
                  /\ isSyncing' = TRUE
                  /\ awaiting' = "syncAll"
                  /\ lastOutcome' = "none"
    /\ UNCHANGED <<focus, now, dataVars, userToken, lastSync, faults, pairVars, moreVars, noteVars>>

\* performSync resumes with the result of syncAll, or in its catch block when
\* syncAll was rejected
performSyncReturn ==
    /\ awaiting = "syncAll"
    /\ call["coord"].pc = "returned"
    /\ IF call["coord"].result # Rejected /\ call["coord"].result.success
       THEN /\ lastSync' = now
            /\ lastOutcome' = "ok"
            /\ UNCHANGED hasError
       ELSE /\ hasError' = TRUE
            /\ lastOutcome' = "failed"
            /\ UNCHANGED lastSync
    /\ isSyncing' = FALSE
    /\ syncLock' = FALSE
    /\ awaiting' = "none"
    /\ call' = [call EXCEPT !["coord"] = IdleCall]
    /\ UNCHANGED <<focus, now, dataVars, accessToken, refreshTokenFn, syncInProgress,
                   unit, others, userToken, faults, triggers, pairVars, moreVars, noteVars>>

\* a change of the local data of focus, followed (for the domains that have
\* one) by its domain-changed event: the window listener calls
\* instantSync(focus), the Coordinator's listener calls syncNow(focus), and on
\* 'notesUpdated' the NotesProvider starts loading the notes from the store
domainChanged ==
    /\ triggers < MaxTriggers
    /\ ~Active("instantSync")
    /\ triggers' = triggers + 1
    /\ local' = changeLocal(focus, local)
    /\ reloading' = (reloading \/ focus = "notes")
    /\ LET heard == focus \in ListenedDomains
           byWindow == heard /\ accessToken # NoToken
           byCoordinator == heard /\ signedIn /\ ~coordGuard
       IN /\ unit' = launch({u \in {"instantSync"} : byWindow}
                            \cup {u \in {"syncNow"} : byCoordinator},
                            IF byCoordinator THEN userToken ELSE accessToken)
          /\ IF byCoordinator
             THEN /\ accessToken' = userToken
                  /\ refreshTokenFn' = TRUE
                  /\ syncLock' = TRUE
                  /\ isSyncing' = TRUE
                  /\ awaiting' = "syncNow"
                  /\ lastOutcome' = "none"
             ELSE /\ lastOutcome' = IF heard /\ signedIn THEN "dropped" ELSE lastOutcome
                  /\ UNCHANGED <<accessToken, refreshTokenFn, syncLock, isSyncing, awaiting>>
    /\ UNCHANGED <<focus, now, remote, syncTime, lastFullSync, syncInProgress, others, call,
                   userToken, hasError, lastSync, faults, pairVars, moreVars,
                   notes, notesMeta, saveTimeout, lastSaved, mutation>>

\* syncNow(focus) resumes with the unit's result
syncNowReturn ==
    /\ awaiting = "syncNow"
    /\ unit["syncNow"].pc = "done"
    /\ IF unit["syncNow"].result = "true"
       THEN /\ lastSync' = now
            /\ lastOutcome' = "ok"
       ELSE /\ lastOutcome' = "failed"
            /\ UNCHANGED lastSync
    /\ isSyncing' = FALSE
    /\ syncLock' = FALSE
    /\ awaiting' = "none"
    /\ UNCHANGED <<focus, now, dataVars, orchVars, unit, userToken, hasError,
                   faults, triggers, pairVars, moreVars, noteVars>>

(* ---------------------------- NotesProvider ---------------------------- *)
\* setNotes, the render that follows and its effects
setNotes(items) ==
    /\ notes' = Arr(items)
    /\ notesMeta' = useMemo(notesMeta, items)
    /\ saveTimeout' = saveEffect(saveTimeout, lastSaved, items)

idsIn(items) == {items[i].id : i \in 1..Len(items)}

\* the partial notes that updateNote and bulkUpdateNotes are called with
Updates == {[v |-> "edit"], [isPinned |-> TRUE]}

\* saveNote(note), the note coming from an editor: an edit of a note held,
\* or a new note
saveNote ==
    /\ focus = "notes"
    /\ triggers < MaxTriggers
    /\ triggers' = triggers + 1
    /\ \E i \in idsIn(notes.items) \cup {IdOfChange("notes")} :
          LET note == [Entry("notes", i, "edit") EXCEPT !.updatedAt = DateVal(now)]
          IN /\ setNotes(withNote(notes.items, note))
             /\ local' = saveNoteToDBSingle(local, note)
             /\ mutation' = [op |-> "saveNote", ids |-> {i}, wrote |-> {i}, made |-> {note}]
    /\ UNCHANGED <<focus, now, remote, syncTime, lastFullSync, orchVars, unit, coordVars,
                   faults, pairVars, moreVars, lastSaved, reloading>>

deleteNote ==
    /\ focus = "notes"
    /\ triggers < MaxTriggers
    /\ triggers' = triggers + 1
    /\ \E i \in idsIn(notes.items) :
          /\ setNotes(withoutNote(notes.items, i))
          /\ local' = deleteNoteFromDB(local, i)
          /\ mutation' = [op |-> "deleteNote", ids |-> {i}, wrote |-> {i}, made |-> {}]
    /\ UNCHANGED <<focus, now, remote, syncTime, lastFullSync, orchVars, unit, coordVars,
                   faults, pairVars, moreVars, lastSaved, reloading>>

\* bulkUpdateNotes(noteIds, updates): setNotes and nothing else
bulkUpdateNotes ==
    /\ focus = "notes"
    /\ triggers < MaxTriggers
    /\ triggers' = triggers + 1
    /\ \E noteIds \in SUBSET idsIn(notes.items) \ {{}}, updates \in Updates :
          /\ setNotes([i \in 1..Len(notes.items) |->
                        IF notes.items[i].id \in noteIds
                        THEN updated(notes.items[i], updates, now)
                        ELSE notes.items[i]])
          /\ mutation' = [op |-> "bulkUpdateNotes", ids |-> noteIds, wrote |-> {},
                           made |-> {updated(notes.items[i], updates, now) :
                                        i \in {j \in 1..Len(notes.items) :
                                                  notes.items[j].id \in noteIds}}]
    /\ UNCHANGED <<focus, now, dataVars, orchVars, unit, coordVars, faults, pairVars, moreVars,
                   lastSaved, reloading>>

\* updateNote(noteId, updates): setNotes and nothing else
updateNote ==
    /\ focus = "notes"
    /\ triggers < MaxTriggers
    /\ triggers' = triggers + 1
    /\ \E noteId \in idsIn(notes.items), updates \in Updates :
          /\ setNotes([i \in 1..Len(notes.items) |->
                        IF notes.items[i].id = noteId
                        THEN updated(notes.items[i], updates, now)
                        ELSE notes.items[i]])
          /\ mutation' = [op |-> "updateNote", ids |-> {noteId}, wrote |-> {},
                           made |-> {updated(notes.items[i], updates, now) :
                                        i \in {j \in 1..Len(notes.items) :
                                                  notes.items[j].id = noteId}}]
    /\ UNCHANGED <<focus, now, dataVars, orchVars, unit, coordVars, faults, pairVars, moreVars,
                   lastSaved, reloading>>

\* refreshNotes() is called, or 'notesUpdated' is heard: the notes are being
\* loaded from the store
refreshNotes ==
    /\ focus = "notes"
    /\ ~reloading
    /\ reloading' = TRUE
    /\ UNCHANGED <<focus, now, dataVars, orchVars, unit, coordVars, faults, triggers,
                   pairVars, moreVars, notes, notesMeta, saveTimeout, lastSaved, mutation>>

\* loadNotesFromDB() has resolved: setNotes(loadedNotes)
notesLoaded ==
    /\ reloading
    /\ local.kind = "array"
    /\ reloading' = FALSE
    /\ setNotes(local.items)
    /\ UNCHANGED <<focus, now, dataVars, orchVars, unit, coordVars, faults, triggers,
                   pairVars, moreVars, lastSaved, mutation>>

\* the timer of the save effect fires: saveNotesToDB(notes) with the notes
\* the effect captured, then lastSavedRef is set to the hash it computed
flush ==
    /\ focus = "notes"
    /\ saveTimeout # Null
    /\ local' = persisted(saveTimeout.notes)
    /\ lastSaved' = saveTimeout.hash
    /\ saveTimeout' = Null
    /\ UNCHANGED <<focus, now, remote, syncTime, lastFullSync, orchVars, unit, coordVars,
                   faults, triggers, pairVars, moreVars, notes, notesMeta, reloading, mutation>>

(* -------------------------------- clock -------------------------------- *)
Tick ==
    /\ now < MaxTime
    /\ now' = now + 1
    /\ UNCHANGED <<focus, dataVars, orchVars, unit, coordVars, faults, triggers, pairVars, moreVars,
                   noteVars>>

(* ------------------------ resolveConflict alone ------------------------ *)
\* resolveConflict(envA, envB): envA is the local side, envB the remote one
resolveAB ==
    /\ picked' = [picked EXCEPT !["AB"] = resolveConflict(envA, envB)]
    /\ UNCHANGED <<focus, now, dataVars, orchVars, unit, coordVars, faults, triggers,
                   envA, envB, noteVars, moreVars>>

\* resolveConflict(envB, envA): envB is the local side, envA the remote one
resolveBA ==
    /\ picked' = [picked EXCEPT !["BA"] = resolveConflict(envB, envA)]
    /\ UNCHANGED <<focus, now, dataVars, orchVars, unit, coordVars, faults, triggers,
                   envA, envB, noteVars, moreVars>>

(* ----------------------------- getDeviceId ------------------------------ *)
\* Math.random().toString(36).substr(2, 9)
Randoms == {"k3x9", "q7zd"}

\* `device_${Date.now()}_${random}`
newDeviceId(t, r) == "device_" \o ToString(t) \o "_" \o r

\* a unit calls getDeviceId(), which calls getSetting('device_id', '')
getDeviceId(g) ==
    /\ getting[g].pc \in {"idle", "done"}
    /\ getting' = [getting EXCEPT ![g] = [pc |-> "getSetting", deviceId |-> ""]]
    /\ UNCHANGED <<focus, now, dataVars, orchVars, unit, coordVars, faults, triggers,
                   pairVars, noteVars, device_id, online, peer, rounds>>

\* getSetting has resolved: the stored id is returned, or (none stored) an id
\* is generated and setSetting('device_id', deviceId) called
getSettingResolves(g) ==
    /\ getting[g].pc = "getSetting"
    /\ IF device_id # ""
       THEN getting' = [getting EXCEPT ![g] = [pc |-> "done", deviceId |-> device_id]]
       ELSE \E r \in Randoms :
               getting' = [getting EXCEPT ![g] =
                              [pc |-> "setSetting", deviceId |-> newDeviceId(now, r)]]
    /\ UNCHANGED <<focus, now, dataVars, orchVars, unit, coordVars, faults, triggers,
                   pairVars, noteVars, device_id, online, peer, rounds>>

\* setSetting has stored the generated id and resolved: getDeviceId returns it
setSettingResolves(g) ==
    /\ getting[g].pc = "setSetting"
    /\ device_id' = getting[g].deviceId
    /\ getting' = [getting EXCEPT ![g].pc = "done"]
    /\ UNCHANGED <<focus, now, dataVars, orchVars, unit, coordVars, faults, triggers,
                   pairVars, noteVars, online, peer, rounds>>

(* ------------------------------ two devices ---------------------------- *)
\* a whole run of the unit of focus in which every request succeeds, on a
\* device whose local store is stored and whose sync_<focus>_time is
\* storedTime: the local store and the remote files it leaves
runUnit(stored, storedTime, files) ==
    LET rec == [IdleUnit EXCEPT
                   !.localData = getLocalDataWithMetadata(loadLocal(focus, stored),
                                                          storedTime)]
        found == afterFind(rec, IF files = <<>> THEN 0 ELSE 1)
        resolved == IF found.pc = "read"
                    THEN afterRead(found, parseBody(files[1].content))
                    ELSE found
    IN [local |-> IF resolved.pc = "save"
                  THEN saveLocal(focus, stored, resolved.pending)
                  ELSE stored,
        remote |-> IF resolved.pc = "write"
                   THEN written(files, resolved.file, stringify(resolved.pending))
                   ELSE files]

\* device dev syncs focus, no other sync overlapping it; the run takes no
\* time or one unit of it, and sync_<focus>_time is set when it ends
deviceSyncs(dev) ==
    /\ rounds[dev] < MaxSyncs
    /\ rounds' = [rounds EXCEPT ![dev] = @ + 1]
    /\ \E took \in {0, 1} :
          /\ now' = now + took
          /\ IF dev = ThisDevice
             THEN /\ local' = runUnit(local, syncTime, remote).local
                  /\ remote' = runUnit(local, syncTime, remote).remote
                  /\ syncTime' = ISO(now')
                  /\ UNCHANGED peer
             ELSE /\ peer' = [local |-> runUnit(peer.local, peer.syncTime, remote).local,
                              syncTime |-> ISO(now')]
                  /\ remote' = runUnit(peer.local, peer.syncTime, remote).remote
                  /\ UNCHANGED <<local, syncTime>>
    /\ UNCHANGED <<focus, lastFullSync, orchVars, unit, coordVars, faults, triggers,
                   pairVars, noteVars, device_id, getting, online>>

(* --------------------------- specifications ---------------------------- *)
UnitStep ==
    \E u \in UnitIds :
        ensureValidToken(u) \/ findFile(u) \/ readFile(u) \/ saveRemoteWins(u) \/ writeFile(u)

FanoutStep == \E c \in Callers : othersSettle(c) \/ syncAllFinish(c)

\* the whole system
Next ==
    \/ Tick
    \/ signIn
    \/ signOut
    \/ performSync
    \/ performSyncReturn
    \/ domainChanged
    \/ syncNowReturn
    \/ FanoutStep
    \/ UnitStep

Spec == Init /\ [][Next]_vars

\* the callers of syncAll alone: no domain-changed event
NextLock ==
    \/ Tick
    \/ signIn
    \/ signOut
    \/ performSync
    \/ performSyncReturn
    \/ FanoutStep
    \/ UnitStep

SpecLock == InitLock /\ [][NextLock]_vars

\* the callers of syncAll with the clock standing still and nobody signing
\* out, every awaited call eventually returning: a unit that is running takes
\* its next step, a fan-out that has settled is finished
NextRelease ==
    \/ signIn
    \/ performSync
    \/ performSyncReturn
    \/ FanoutStep
    \/ UnitStep

SpecRelease ==
    InitLock /\ [][NextRelease]_vars /\ WF_vars(UnitStep) /\ WF_vars(FanoutStep)

\* one unit of focus at a time, called through instantSync
NextUnit ==
    \/ Tick
    \/ signOut
    \/ instantSync
    \/ UnitStep

SpecUnit == InitUnit /\ [][NextUnit]_vars

\* the Coordinator alone, on a restored session: its full syncs and its
\* syncNow(focus) calls, without the sign-in listener and with the clock
\* standing still
InitCoord ==
    /\ Idle
    /\ Installed
    /\ NoPair
    /\ accessToken = NoToken
    /\ refreshTokenFn = FALSE
    /\ userToken = "token1"
    /\ \/ /\ remote = <<>>
          /\ syncTime = Undefined
       \/ /\ remote = <<File(focus, GoodContent(focus))>>
          /\ syncTime = Undefined

NextCoord ==
    \/ performSync
    \/ performSyncReturn
    \/ domainChanged
    \/ syncNowReturn
    \/ FanoutStep
    \/ UnitStep

SpecCoord == InitCoord /\ [][NextCoord]_vars

\* the NotesProvider with the notes unit called through instantSync
NextNotes ==
    \/ Tick
    \/ saveNote
    \/ deleteNote
    \/ updateNote
    \/ bulkUpdateNotes
    \/ refreshNotes
    \/ notesLoaded
    \/ flush
    \/ instantSync
    \/ UnitStep

SpecNotes == InitNotes /\ [][NextNotes]_vars

\* resolveConflict on a pair of envelopes, in both argument orders
NextResolve == resolveAB \/ resolveBA

SpecResolve == InitResolve /\ [][NextResolve]_vars

\* the getDeviceId() calls of the units of one fan-out, on an installation
\* that has stored no device id yet or has stored one
InitDevice ==
    /\ Idle
    /\ NoPair
    /\ Mounted
    /\ remote = <<>>
    /\ syncTime = Undefined
    /\ device_id \in {"", ThisDevice}
    /\ getting = [g \in Getters |-> IdleGetter]
    /\ online = TRUE
    /\ NoPeer

NextDevice ==
    \/ Tick
    \/ \E g \in Getters : getDeviceId(g)
    \/ \E g \in Getters : getSettingResolves(g)
    \/ \E g \in Getters : setSettingResolves(g)

SpecDevice == InitDevice /\ [][NextDevice]_vars

\* the device is offline for the whole behaviour: the Coordinator's full
\* syncs and instantSync(focus) on a restored session whose credential the
\* manager holds
InitOffline ==
    /\ Idle
    /\ NoPair
    /\ device_id = ThisDevice
    /\ getting = [g \in Getters |-> IdleGetter]
    /\ online = FALSE
    /\ NoPeer
    /\ userToken = "token1"
    /\ accessToken = "token1"
    /\ refreshTokenFn = TRUE
    /\ \/ /\ remote = <<>>
          /\ syncTime = Undefined
       \/ /\ remote = <<File(focus, GoodContent(focus))>>
          /\ syncTime \in {Undefined, ISO(StartTime)}

\* offline no unit gets past its credential probe
NextOffline ==
    \/ Tick
    \/ performSync
    \/ performSyncReturn
    \/ instantSync
    \/ FanoutStep
    \/ \E u \in UnitIds : ensureValidToken(u)

SpecOffline == InitOffline /\ [][NextOffline]_vars

\* one unit at a time on a device that has never synced focus, the blob
\* having been written by another device at time 1
InitStale ==
    /\ Idle
    /\ Installed
    /\ NoPair
    /\ userToken = "token1"
    /\ accessToken = "token1"
    /\ refreshTokenFn = TRUE
    /\ remote = <<File(focus, GoodContent(focus))>>
    /\ syncTime = Undefined

SpecStale == InitStale /\ [][NextUnit]_vars

\* the NotesProvider of a user who is not signed in (no unit runs), with the
\* saves made outside the provider and their 'notesUpdated' events
InitReload ==
    /\ Idle
    /\ Installed
    /\ NoPair
    /\ focus = "notes"
    /\ userToken = NoToken
    /\ accessToken = NoToken
    /\ refreshTokenFn = FALSE
    /\ remote = <<>>
    /\ syncTime = Undefined

NextReload ==
    \/ Tick
    \/ domainChanged
    \/ saveNote
    \/ deleteNote
    \/ updateNote
    \/ bulkUpdateNotes
    \/ refreshNotes
    \/ notesLoaded
    \/ flush

SpecReload == InitReload /\ [][NextReload]_vars

\* the keys of the settings store that the Sections, ActivityLog and
\* MediaIndex units read and write
UnitKeys == {"todo_sections", "userActivityLog", "media_index"}

\* a settings payload of a device that also holds those keys: getAllSettings
\* returns them and the filter of syncSettings lets them through
withUnitKeys(p, v) ==
    Obj([k \in DOMAIN p.fields \cup UnitKeys |-> IF k \in UnitKeys THEN v ELSE p.fields[k]])

\* the application (or the unit owning the key) stores sections, an activity
\* log and a media index in the settings store
unitKeysStored ==
    /\ focus = "settings"
    /\ local.kind = "object"
    /\ ~(UnitKeys \subseteq DOMAIN local.fields)
    /\ \A u \in UnitIds : ~Active(u)
    /\ local' = withUnitKeys(local, "here")
    /\ UNCHANGED <<focus, now, remote, syncTime, lastFullSync, orchVars, unit, coordVars,
                   faults, triggers, pairVars, moreVars, noteVars>>

\* the settings unit alone, the other device holding sections, an activity
\* log and a media index in its settings store
InitShared ==
    /\ Idle
    /\ Installed
    /\ NoPair
    /\ focus = "settings"
    /\ userToken = "token1"
    /\ accessToken = "token1"
    /\ refreshTokenFn = TRUE
    /\ remote = <<File(focus, [data |-> withUnitKeys(Payload(focus, IdsThere(focus), "there"),
                                                     "there"),
                               metadata |-> MetaThere])>>
    /\ syncTime \in {Undefined, MetaThere.lastSyncTime, ISO(StartTime)}

NextShared ==
    \/ Tick
    \/ signOut
    \/ instantSync
    \/ UnitStep
    \/ unitKeysStored

SpecShared == InitShared /\ [][NextShared]_vars

\* two devices and one remote store, the edits having stopped: each device
\* holds its own payload of a domain other than the activity log; there is
\* no blob yet, or the other device wrote the one there is
InitTwo ==
    /\ Idle
    /\ NoPair
    /\ Mounted
    /\ focus # "activity"
    /\ device_id = ThisDevice
    /\ getting = [g \in Getters |-> IdleGetter]
    /\ online = TRUE
    /\ rounds = [dev \in Devices |-> 0]
    /\ syncTime \in {Undefined, ISO(StartTime)}
    /\ \/ /\ remote = <<>>
          /\ peer = [local |-> StoredForm(focus, Payload(focus, IdsThere(focus), "there")),
                     syncTime |-> Undefined]
       \/ /\ remote = <<File(focus, GoodContent(focus))>>
          /\ peer \in [local : {StoredForm(focus, Payload(focus, IdsThere(focus), "there"))},
                       syncTime : {MetaThere.lastSyncTime, ISO(StartTime)}]

NextTwo == \E dev \in Devices : deviceSyncs(dev)

SpecTwo == InitTwo /\ [][NextTwo]_vars

\* domain-changed events on a restored session with the clock standing
\* still, every awaited call eventually returning
NextRest ==
    \/ domainChanged
    \/ syncNowReturn
    \/ UnitStep

SpecRest ==
    InitCoord /\ [][NextRest]_vars /\ WF_vars(UnitStep) /\ WF_awaiting(syncNowReturn)

(* ------------------------------- claims -------------------------------- *)
FanoutsInFlight == {c \in Callers : call[c].pc = "fanout"}

\* this step is a syncAll call of c that came back with the 'busy' result
gotBusy(c) ==
    /\ call'[c] # call[c]
    /\ call'[c].pc = "returned"
    /\ call'[c].result = BusyResult

\* C1: at most one syncAll fan-out is in flight in every reachable state, and
\* a syncAll call made while another has not completed returns the 'busy'
\* result (success = false) in the same step, leaves the other call's
\* fan-out running, starts no unit and changes neither the remote files nor
\* the local payload nor the stored sync times.
C1_AtMostOneFullSync ==
    [][/\ Cardinality(FanoutsInFlight') <= 1
       /\ \A c \in Callers :
            gotBusy(c) =>
                /\ ~call'[c].result.success
                /\ \E o \in Callers \ {c} : call[o].pc = "fanout" /\ call'[o] = call[o]
                /\ unit' = unit
                /\ others' = others
                /\ remote' = remote
                /\ local' = local
                /\ syncTime' = syncTime
                /\ lastFullSync' = lastFullSync]_vars

\* the Coordinator's syncAll came back busy while the fan-out of the sign-in
\* listener's syncAll is in flight
C1_Witness ==
    /\ call["coord"].pc = "returned"
    /\ call["coord"].result = BusyResult
    /\ call["auth"].pc = "fanout"

\* the unit has read the remote blob and has not yet written the blob or the
\* local payload
midWrite(u) == unit[u].pc \in {"save", "write"} /\ unit[u].remoteData # Null

\* C2: a domain-scoped sync (instantSync(focus) or the Coordinator's
\* syncNow(focus)) is never between its read of the remote blob and its write
\* while a unit of the same domain started by a syncAll fan-out is.
C2_NoDomainSyncDuringFullSync ==
    \A c \in Callers : \A u \in {"instantSync", "syncNow"} :
        ~(midWrite(FanoutUnit(c)) /\ midWrite(u))

\* the one remote blob is the one this device wrote from the payload it holds
blobIsOurs ==
    /\ Len(remote) = 1
    /\ hasMetadata(remote[1].content)
    /\ remote[1].content.metadata.deviceId = ThisDevice
    /\ remote[1].content.data = toJSON(loadLocal(focus, local))

timeOf(env) == getTime(NewDate(env.metadata.lastSyncTime))

\* C4: resolveConflict returns the data of the envelope whose lastSyncTime is
\* strictly greater, in whichever argument position that envelope is passed;
\* when the two times are equal it returns the remote side.
C4_LastWriteWins ==
    /\ picked["AB"] # NotPicked =>
          picked["AB"] = IF timeOf(envA) > timeOf(envB)
                         THEN [winner |-> "local", data |-> envA.data]
                         ELSE [winner |-> "remote", data |-> envB.data]
    /\ picked["BA"] # NotPicked =>
          picked["BA"] = IF timeOf(envB) > timeOf(envA)
                         THEN [winner |-> "local", data |-> envB.data]
                         ELSE [winner |-> "remote", data |-> envA.data]

\* envA is newer, holds other data than envB, and both orders were resolved
C4_Witness ==
    /\ picked["AB"] # NotPicked
    /\ picked["BA"] # NotPicked
    /\ timeOf(envA) > timeOf(envB)
    /\ envA.data # envB.data
    /\ picked["AB"].data = envA.data
    /\ picked["BA"].data = envA.data

\* C5: a unit that returns after one of its remote requests (find, read or
\* write) has failed returns false, and the step in which it returns does not
\* set sync_<focus>_time.
C5_FailureReturnsFalse ==
    [][\A u \in UnitIds :
        (/\ unit[u].pc # "done"
         /\ unit'[u].pc = "done"
         /\ unit'[u].fault \in {"find", "read", "write"})
        => /\ unit'[u].result = "false"
           /\ syncTime' = syncTime]_vars

\* C6: a unit whose read of the remote blob gives a body that is not JSON, has
\* no metadata, or has missing or wrongly shaped data returns false in that
\* step, and no step of it changes the local payload.
C6_MalformedIsReadFailure ==
    [][\A u \in UnitIds :
        /\ (/\ unit[u].pc = "read"
            /\ unit'[u] # unit[u]
            /\ faults' = faults
            /\ shapeOf(parseBody(remote[unit[u].file].content)) # "good")
           => /\ unit'[u].pc = "done"
              /\ unit'[u].result = "false"
              /\ local' = local
        /\ (/\ unit[u].pc = "save"
            /\ unit'[u].pc = "done"
            /\ shapeOf(unit[u].remoteData) # "good")
           => local' = local]_vars

\* the domains the error list of a result names
namedIn(result) == {result.errors[i].type : i \in 1..Len(result.errors)}

\* C7: the result of an executed syncAll names in its error list exactly the
\* domains of which the unit failed (returned false or had a request fail),
\* and success is true exactly when there is none.
C7_ErrorsNameFailedUnits ==
    \A c \in Callers :
        (call[c].pc = "returned" /\ call[c].result \notin {BusyResult, Rejected})
        => /\ namedIn(call[c].result) = call[c].failedUnits
           /\ call[c].result.success <=> (call[c].failedUnits = {})

idsOf(arr) == {arr.items[i].id : i \in 1..Len(arr.items)}

\* C8: when the activity unit saves in its remote-wins branch, the log it
\* persists has exactly the ids of the local entries it loaded and of the
\* remote entries, each id once, and every local entry whose id the remote
\* log lacks is kept as it was.
C8_ActivityUnionMerge ==
    [][\A u \in UnitIds :
        (focus = "activity" /\ unit[u].pc = "save" /\ unit'[u].result = "true")
        => /\ local'.kind = "array"
           /\ idsOf(local') = idsOf(unit[u].localData.data)
                                \cup idsOf(unit[u].remoteData.data)
           /\ Cardinality(idsOf(local')) = Len(local'.items)
           /\ \A i \in 1..Len(unit[u].localData.data.items) :
                LET e == unit[u].localData.data.items[i]
                IN e.id \notin idsOf(unit[u].remoteData.data)
                   => \E j \in 1..Len(local'.items) : local'.items[j] = e]_vars

\* the activity unit has merged local ids {1, 2} with remote ids {2, 3}
C8_Witness ==
    /\ focus = "activity"
    /\ unit["instantSync"].pc = "done"
    /\ unit["instantSync"].result = "true"
    /\ local.kind = "array"
    /\ idsOf(local) = {1, 2, 3}
    /\ Len(local.items) = 3

\* C9: when a unit of a domain other than activity saves in its remote-wins
\* branch a well-formed remote payload, the local payload afterwards equals
\* the remote payload (a note's updatedAt restored to a Date), and the remote
\* files are not written.
C9_RemoteWinsReplacesLocal ==
    [][\A u \in UnitIds :
        (/\ focus # "activity"
         /\ unit[u].pc = "save"
         /\ unit'[u].result = "true"
         /\ shapeOf(unit[u].remoteData) = "good")
        => /\ toJSON(loadLocal(focus, local')) = unit[u].remoteData.data
           /\ focus = "notes" =>
                \A i \in 1..Len(local'.items) : local'.items[i].updatedAt.rep = "date"
           /\ remote' = remote]_vars

\* C10: once a sync the Coordinator invoked has returned (a full sync that
\* ran or was rejected as busy, or a syncNow(focus)), hasError is true exactly
\* when that invocation failed.
C10_ErrorFlagIffFailed ==
    (awaiting = "none" /\ lastOutcome \in {"ok", "failed", "busy"})
    => (hasError <=> lastOutcome = "failed")

C12_CoordinatorGuard ==
    [][/\ syncLock <=> awaiting # "none"
       /\ isSyncing <=> syncLock
       /\ awaiting = "syncAll" => ~Active("syncNow")
       /\ awaiting = "syncNow" => call["coord"].pc = "idle"
       /\ (syncLock /\ triggers' # triggers)
          => /\ UNCHANGED <<call, others, syncInProgress, accessToken, refreshTokenFn>>
             /\ unit'["syncNow"] = unit["syncNow"]
             /\ unit'["all_coord"] = unit["all_coord"]
             /\ UNCHANGED <<syncLock, isSyncing, awaiting, hasError, lastSync>>
       /\ (awaiting' # awaiting /\ awaiting' # "none") => ~syncLock /\ syncLock'
       /\ (awaiting # "none" /\ awaiting' # awaiting)
          => awaiting' = "none" /\ ~syncLock' /\ ~isSyncing']_vars

\* a trigger has been dropped while a sync of the Coordinator was in flight
C12_Witness == syncLock /\ lastOutcome = "dropped"

\* C13: with the user signed in and the Coordinator idle, a change of the
\* data of a domain is followed by its domain-changed signal, on which the
\* Coordinator starts a sync of that domain alone (syncNow(focus), no call of
\* syncAll), whichever of the seven domains it is.
C13_SignalForEveryDomain ==
    [][(local' # local /\ triggers' # triggers /\ signedIn /\ ~syncLock)
        => /\ awaiting' = "syncNow"
           /\ unit'["syncNow"] # unit["syncNow"]
           /\ call' = call]_vars

\* C14: the full sync performSync awaited resolves to true exactly when it
\* was executed and no domain failed (no unit returned false and no request
\* of a unit failed), and lastSync advances only together with true.
C14_ManualSyncResult ==
    [][(awaiting = "syncAll" /\ awaiting' = "none" /\ call["coord"].result # Rejected)
        => /\ lastOutcome' = "ok" <=> call["coord"].failedUnits = {}
           /\ lastSync' # lastSync => lastOutcome' = "ok"]_vars

\* C17: a unit never propagates an exception: whatever fails in it (the
\* probe, the local load, a request on the blob, a malformed blob, the local
\* save), a unit that has returned has returned true or false, so that its
\* caller gets the failure as a value.
C17_UnitsNeverThrow ==
    /\ \A u \in UnitIds : unit[u].pc = "done" => unit[u].result \in {"true", "false"}
    /\ \A u \in UnitIds : unit[u].pc # "done" => unit[u].result = "none"

\* the local save of a unit threw, and the unit returned false
C17_Witness ==
    \E u \in UnitIds :
        unit[u].pc = "done" /\ unit[u].fault = "save" /\ unit[u].result = "false"

\* C20: every executed syncAll eventually clears the lock, whether its units
\* succeeded or failed or storing last_full_sync threw; the lock is held only
\* while a fan-out is in flight, so a syncAll called after one has returned
\* is executed and not rejected as busy.
C20_LockReleased ==
    /\ [](syncInProgress => \E c \in Callers : call[c].pc = "fanout")
    /\ [][\A c \in Callers :
            (call[c].pc # "fanout" /\ call'[c] # call[c] /\ call'[c].pc # "idle"
             /\ \A o \in Callers : call[o].pc # "fanout")
            => call'[c].pc = "fanout"]_vars
    /\ syncInProgress ~> ~syncInProgress

\* a syncAll is executed after an earlier one was rejected with an exception
C20_Witness ==
    /\ call["auth"].pc = "returned"
    /\ call["auth"].result = Rejected
    /\ call["coord"].pc = "fanout"

\* C15: notesMeta has an entry for every note, in the same order, with the
\* note's id and the note's fingerprint fields (updatedAt, title, the flags),
\* whatever mutation or reload the notes were reached by.
C15_MetaMatchesNotes ==
    /\ Len(notesMeta.items) = Len(notes.items)
    /\ \A i \in 1..Len(notes.items) :
          /\ i <= Len(notesMeta.items)
          /\ notesMeta.items[i] = extractNoteMeta(notes.items[i])

\* C16: the flush of the debounce timer writes the collection as it is when
\* the timer fires, that is, as of the last mutation.
C16_FlushWritesLatest ==
    [][(saveTimeout # Null /\ saveTimeout' = Null) => saveTimeout.notes = notes]_vars

\* C18: every mutation of the notes (saveNote, updateNote, bulkUpdateNotes,
\* deleteNote) initiates a single-entity write or delete in the store for
\* each note it affects.
C18_MutationsWriteThrough == mutation.wrote = mutation.ids

\* C19: the step in which the notes unit persists a remote payload that won
\* signals the NotesProvider, which then reloads its notes from the store.
C19_RemoteWinsRefreshes ==
    [][\A u \in UnitIds :
        (focus = "notes" /\ unit[u].pc = "save" /\ unit'[u].result = "true")
        => reloading']_vars

\* C21: the device id is generated at most once per installation: any two
\* getDeviceId() calls that have returned, returned the same id
C21_OneDeviceId ==
    \A g, h \in Getters :
        getting[g].pc = "done" /\ getting[h].pc = "done"
            => getting[g].deviceId = getting[h].deviceId

\* C22: local-wins branch.  A unit that has read the blob goes on to write
\* only when the local lastSyncTime is strictly newer than the blob's, and
\* the envelope it builds holds the whole local payload, the current time,
\* this device's id and version 1; when its write succeeds that envelope
\* replaces the content of the blob it read, no blob is added and the local
\* payload is unchanged.
C22_LocalWinsOverwrites ==
    [][\A u \in UnitIds :
        /\ (unit[u].pc = "read" /\ unit'[u].pc = "write") =>
              /\ timeOf(unit[u].localData) > timeOf(remote[unit[u].file].content)
              /\ unit'[u].file = unit[u].file
              /\ unit'[u].pending =
                    [data |-> loadLocal(focus, local),
                     metadata |-> [lastSyncTime |-> ISO(now), deviceId |-> device_id,
                                   version |-> 1]]
        /\ (/\ unit[u].pc = "write" /\ unit[u].remoteData # Null
            /\ unit'[u].pc = "done" /\ faults' = faults) =>
              /\ remote' = [remote EXCEPT ![unit[u].file].content =
                                [data |-> toJSON(loadLocal(focus, local)),
                                 metadata |-> unit[u].pending.metadata]]
              /\ Len(remote') = Len(remote)
              /\ local' = local]_vars

\* a unit that found another device's blob has overwritten it in place
C22_Witness ==
    /\ unit["instantSync"].pc = "done"
    /\ unit["instantSync"].began = "other"
    /\ unit["instantSync"].result = "true"
    /\ faults = 0
    /\ Len(remote) = 1
    /\ hasMetadata(remote[1].content)
    /\ remote[1].content.metadata.deviceId = ThisDevice
    /\ remote[1].content.data = toJSON(loadLocal(focus, local))

\* C23: offline suppression.  While the device is offline no step changes the
\* local payload, the per-domain last-sync time, the value getLastSyncTime()
\* returns (the setting last_full_sync) or the remote blobs, and every sync
\* that returns reports failure.
C23_OfflineChangesNothing ==
    [][~online =>
        /\ UNCHANGED <<remote, local, syncTime, lastFullSync>>
        /\ \A u \in UnitIds : unit'[u].pc = "done" => unit'[u].result = "false"
        /\ lastOutcome' # "ok"]_vars

\* C24: the remote container never holds more than one blob named after the
\* domain.
C24_OneBlobPerDomain == Len(remote) <= 1

\* the local store of focus is as it was when the application was mounted:
\* no remote payload has been applied to it
storeAsMounted == local = StoredForm(focus, Payload(focus, IdsHere(focus), "here"))

\* C25: a device that has not reconciled with the envelope another device
\* wrote does not overwrite it: a step changes the content of a blob holding
\* the other device's envelope only after that envelope's payload has been
\* applied to the local store.
C25_NoStaleOverwrite ==
    [][\A f \in 1..Len(remote) :
          (/\ hasMetadata(remote[f].content)
           /\ remote[f].content.metadata.deviceId = OtherDevice
           /\ remote'[f] # remote[f]) => ~storeAsMounted]_vars

\* C26: durable convergence of the notes.  When no flush is pending and no
\* reload is pending (and no sync unit has touched the store), the stored
\* notes collection holds the notes the in-memory collection holds: a note
\* that was deleted is absent from the store.
C26_StoreConverges ==
    (/\ saveTimeout = Null
     /\ ~reloading
     /\ \A u \in UnitIds : unit[u].pc = "idle") => idsIn(local.items) = idsIn(notes.items)

inItems(n, items) == \E i \in 1..Len(items) : items[i] = n

\* C27: an update made by updateNote or bulkUpdateNotes is not discarded by a
\* reload from the store: a note the last update made that is in memory and
\* not yet in the store is, after a reload has replaced the in-memory notes,
\* still in memory or in the collection the pending timer will write.
C27_UpdateSurvivesReload ==
    [][(/\ reloading /\ ~reloading'
        /\ mutation.op \in {"updateNote", "bulkUpdateNotes"}) =>
          \A n \in mutation.made :
             (inItems(n, notes.items) /\ ~inItems(n, local.items)) =>
                \/ inItems(n, notes'.items)
                \/ saveTimeout' # Null /\ inItems(n, saveTimeout'.notes.items)]_vars

\* C28: cross-domain local isolation.  No step of the settings unit changes
\* what the local store holds under a key of another unit (the sections, the
\* activity log, the media index).
C28_SettingsUnitIsolated ==
    [][(focus = "settings" /\ local.kind = "object" /\ \E u \in UnitIds : Active(u)) =>
          \A k \in UnitKeys \cap DOMAIN local.fields :
             local'.fields[k] = local.fields[k]]_vars

\* C29: eventual consistency under quiescence.  Once each of the two devices
\* has synced the domain twice after the edits stopped, both local payloads
\* and the payload of the remote blob are equal, and every further sync
\* leaves them so.
C29_DevicesConverge ==
    (\A dev \in Devices : rounds[dev] >= 2) =>
        /\ Len(remote) = 1
        /\ toJSON(loadLocal(focus, local)) = remote[1].content.data
        /\ toJSON(loadLocal(focus, peer.local)) = remote[1].content.data

atRest ==
    /\ \A u \in UnitIds : ~Active(u)
    /\ awaiting = "none"
    /\ ~syncLock

====
